---------------------------- MODULE Spec2Model ----------------------------
(***************************************************************************)
(* Model of pexpert/ppc/pe_clock_speed.c: PE_Determine_Clock_Speeds and    *)
(* pe_do_clock_test (xnu, ppc 32-bit: long and unsigned long are 32 bits,  *)
(* unsigned long long is 64 bits).                                         *)
(*                                                                         *)
(* One step of the model is one statement (or one straight-line group of   *)
(* statements) of the C code; pc holds the line number of the next         *)
(* statement to execute.                                                   *)
(***************************************************************************)
EXTENDS Integers, Sequences, FiniteSets, TLC

(***************************************************************************)
(* Program constants                                                       *)
(***************************************************************************)
\* #define kMaxFreqDiff (30000)
kMaxFreqDiff == 30000

\* "tries = 10" in the declaration of pe_do_clock_test's locals
InitialTries == 10

\* 0xBF401675E5DULL written in base 2^14, least significant digit first
\* (7773 + 1437*2^14 + 16192*2^28 + 2*2^42 = 13142623477341 = 0xBF401675E5D)
LimbBase == 16384
kClockConstLimbs == <<7773, 1437, 16192, 2>>

(***************************************************************************)
(* Bounds of the model                                                     *)
(***************************************************************************)
\* how many entries of SampleList the Sample Provider may return
NumSamples == 6
\* how many entries of TableList a caller may pass
NumTables == 5

(***************************************************************************)
(* Inputs: what pe_run_clock_test may store in clock_test_data, and the    *)
(* speed lists a caller may pass.  Every sample has non-zero tick counts   *)
(* and yields a raw bus frequency that is a non-negative 32-bit long.      *)
(***************************************************************************)
SampleList ==
  << [dec_ticks |-> 1000000,  via_ticks |-> 31330],   \* raw 100014223
     [dec_ticks |-> 1250000,  via_ticks |-> 117504],  \* raw  33333393
     [dec_ticks |-> 1000000,  via_ticks |-> 31322],   \* raw 100039768
     [dec_ticks |-> 400000,   via_ticks |-> 1850],    \* raw 677501754, cpu_pll 13
     [dec_ticks |-> 10000000, via_ticks |-> 5481],    \* raw 100005578 (product wraps)
     [dec_ticks |-> 1002137,  via_ticks |-> 31392],   \* raw 100030000
     [dec_ticks |-> 1000000,  via_ticks |-> 31334],   \* raw 100001455
     [dec_ticks |-> 1,        via_ticks |-> 3133446], \* raw         0
     [dec_ticks |-> 1250000,  via_ticks |-> 58752] >> \* raw  66666786

Samples == { SampleList[i] : i \in 1..NumSamples }

\* a speed list is a sequence of (numerator, denominator) pairs;
\* num_speeds is its length
TableList ==
  << << >>,
     << <<100000000, 1>>, <<100020000, 1>> >>,
     << <<100000000, 3>>, <<100000000, 1>> >>,
     << <<100000000, 0>>, <<100040000, 1>>, <<100000000, -1>> >>,
     << <<100000000, 1>> >>,
     << <<200000000, 3>>, <<66666667, 1>> >> >>

Tables == { TableList[i] : i \in 1..NumTables }

(***************************************************************************)
(* C arithmetic                                                            *)
(***************************************************************************)
Abs(x) == IF x < 0 THEN -x ELSE x

\* C integer division truncates toward zero
CDiv(a, b) ==
  IF (a >= 0) = (b > 0) THEN Abs(a) \div Abs(b) ELSE -(Abs(a) \div Abs(b))

\* base-2^14 digits of an unsigned int below 2^31
Limbs(n) == << n % LimbBase, (n \div LimbBase) % LimbBase,
               n \div (LimbBase * LimbBase) >>

\* column k (0-based) of the schoolbook product a * b, before carries
Column(a, b, k) ==
  LET Idx == { i \in 1..Len(a) : k + 2 - i \in 1..Len(b) }
      RECURSIVE Sum(_)
      Sum(S) == IF S = {} THEN 0
                ELSE LET i == CHOOSE x \in S : TRUE
                     IN  a[i] * b[k + 2 - i] + Sum(S \ {i})
  IN  Sum(Idx)

\* digits 0..4 of a * b in base 2^14 (70 bits; higher digits are not needed)
RECURSIVE MulLimbs(_, _, _, _)
MulLimbs(a, b, k, carry) ==
  IF k > 4 THEN << >>
  ELSE LET t == Column(a, b, k) + carry
       IN  << t % LimbBase >> \o MulLimbs(a, b, k + 1, t \div LimbBase)

\* bit i (0..63) of the unsigned long long product: bits 64 and up are lost
ProductBit(p, i) == (p[(i \div 14) + 1] \div (2 ^ (i % 14))) % 2

\* quotient bits of (64-bit p) / v, most significant (bit i) first
RECURSIVE QuotBits(_, _, _, _)
QuotBits(p, v, i, rem) ==
  IF i < 0 THEN << >>
  ELSE LET r2 == rem * 2 + ProductBit(p, i)
           qb == IF r2 >= v THEN 1 ELSE 0
       IN  << qb >> \o QuotBits(p, v, i - 1, r2 - qb * v)

\* value of bits lo..hi of a quotient given most significant (bit 63) first
RECURSIVE BitsValue(_, _, _)
BitsValue(q, lo, hi) ==
  IF hi < lo THEN 0
  ELSE q[64 - lo] + 2 * BitsValue(q, lo + 1, hi)

\* ((0xBF401675E5DULL * dec_ticks) / via_ticks) >> 22, stored in a long:
\* the product is taken modulo 2^64, the shifted quotient modulo 2^32 and
\* read as two's complement.
RawBusFreq(dec_ticks, via_ticks) ==
  LET p  == MulLimbs(kClockConstLimbs, Limbs(dec_ticks), 0, 0)
      q  == QuotBits(p, via_ticks, 63, 0)
      lo == BitsValue(q, 22, 52)
  IN  IF q[64 - 53] = 1 THEN (lo - 2147483647) - 1 ELSE lo

\* quotient bits (bit 63 first) of the unsigned long long
\* ((unsigned long long)num * pll) / (den * 2), for num, pll >= 0 and den >= 1
CpuSpeedBits(num, den, pll) ==
  QuotBits(MulLimbs(Limbs(num), Limbs(pll), 0, 0), den * 2, 63, 0)

\* (unsigned long)tmp: the low 32 bits of the quotient.  An unsigned long of
\* 2^31 or more is held as its bit pattern read as two's complement.
LowWord(q) ==
  LET lo == BitsValue(q, 0, 30)
  IN  IF q[64 - 31] = 1 THEN (lo - 2147483647) - 1 ELSE lo

\* tmp = ((unsigned long long)bus_freq_num * cpu_pll) / (bus_freq_den * 2);
\* tmp_cpu_speed = (unsigned long)tmp;
CpuSpeed(num, den, pll) == LowWord(CpuSpeedBits(num, den, pll))

\* cpu_pll = 10000000 / dec_ticks; cpu_pll = (cpu_pll / 2) + (cpu_pll & 1);
CpuPll(dec_ticks) ==
  LET p == 10000000 \div dec_ticks
  IN  (p \div 2) + (p % 2)


(***************************************************************************)
(* The for loop over speed_list (cnt = 0 .. num_speeds - 1): each entry    *)
(* examined is stored in bus_freq_num / bus_freq_den, and the loop breaks  *)
(* at the first entry with diff < kMaxFreqDiff * bus_freq_den.  The result *)
(* is the value of cnt, bus_freq_num and bus_freq_den after the loop.      *)
(***************************************************************************)
RECURSIVE TableScanNoBreak(_, _, _, _, _)
TableScanNoBreak(list, raw, cnt, num, den) ==
  IF cnt >= Len(list) THEN [cnt |-> cnt, num |-> num, den |-> den]
  ELSE LET n    == list[cnt + 1][1]
           d    == list[cnt + 1][2]
           diff == Abs(n - raw * d)
           rest == TableScanNoBreak(list, raw, cnt + 1, n, d)
       IN  IF diff < kMaxFreqDiff * d /\ rest.cnt = Len(list)
           THEN [cnt |-> cnt, num |-> n, den |-> d]
           ELSE rest

RECURSIVE TableScan(_, _, _, _, _)
TableScan(list, raw, cnt, num, den) ==
  IF cnt >= Len(list) THEN [cnt |-> cnt, num |-> num, den |-> den]
  ELSE LET n    == list[cnt + 1][1]
           d    == list[cnt + 1][2]
           diff == Abs(n - raw * d)
       IN  IF diff < kMaxFreqDiff * d
           THEN [cnt |-> cnt, num |-> n, den |-> d]
           ELSE TableScan(list, raw, cnt + 1, n, d)

(***************************************************************************)
(* State                                                                   *)
(***************************************************************************)
VARIABLES
  pc,                    \* line of the next statement; "idle" = not called
  intr_enabled,          \* the processor's interrupt-enable state
  speed_list,            \* argument speed_list (num_speeds = its length)
  oldLevel,              \* PE_Determine_Clock_Speeds local
  tmp_bus_speed,         \* PE_Determine_Clock_Speeds local
  tmp_cpu_speed,         \* PE_Determine_Clock_Speeds local
  bus_freq_num,          \* static
  bus_freq_den,          \* static
  cpu_pll,               \* static
  clock_test_data,       \* pe_do_clock_test local, filled by pe_run_clock_test
  raw_bus_freq,          \* pe_do_clock_test local
  last_bus_freq,         \* pe_do_clock_test local
  tries,                 \* pe_do_clock_test local
  gPEClockFrequencyInfo, \* the published record
  nsamples,              \* calls of pe_run_clock_test in this invocation
  nwrites,               \* writes of each published field in this invocation
  ncallbacks,            \* calls of PE_call_timebase_callback in this invocation
  accepted,              \* which of table / tier1 / tier2 / tier3 accepted in this iteration
  prev_pair              \* the pair accepted by the previous iteration, << >> if none

statics == << bus_freq_num, bus_freq_den, cpu_pll >>
testLocals == << clock_test_data, raw_bus_freq, last_bus_freq, tries >>
callerLocals == << oldLevel, tmp_bus_speed, tmp_cpu_speed >>
counters == << nsamples, nwrites, ncallbacks >>
iterTrace == << accepted, prev_pair >>

vars == << pc, intr_enabled, speed_list, oldLevel, tmp_bus_speed, tmp_cpu_speed,
           bus_freq_num, bus_freq_den, cpu_pll, clock_test_data, raw_bus_freq,
           last_bus_freq, tries, gPEClockFrequencyInfo, nsamples, nwrites,
           ncallbacks, accepted, prev_pair >>

Fields == { "bus_clock_rate_num", "bus_clock_rate_den",
            "bus_to_cpu_rate_num", "bus_to_cpu_rate_den",
            "bus_to_dec_rate_num", "bus_to_dec_rate_den",
            "bus_clock_rate_hz", "cpu_clock_rate_hz", "dec_clock_rate_hz" }

NoSample == [dec_ticks |-> 0, via_ticks |-> 0]

\* the lines of the body of the do-while loop of pe_do_clock_test
LoopPcs == { "L107", "L110", "L113", "L126", "L137", "L149", "L161", "L163" }

Init ==
  /\ pc = "idle"
  /\ intr_enabled = TRUE
  /\ speed_list = << >>
  /\ oldLevel = FALSE
  /\ tmp_bus_speed = 0
  /\ tmp_cpu_speed = 0
  /\ bus_freq_num = 0
  /\ bus_freq_den = 0
  /\ cpu_pll = 0
  /\ clock_test_data = NoSample
  /\ raw_bus_freq = 0
  /\ last_bus_freq = 0
  /\ tries = 0
  /\ gPEClockFrequencyInfo = [f \in Fields |-> 0]
  /\ nsamples = 0
  /\ nwrites = [f \in Fields |-> 0]
  /\ ncallbacks = 0
  /\ accepted = {}
  /\ prev_pair = << >>

(***************************************************************************)
(* PE_Determine_Clock_Speeds, entry                                        *)
(***************************************************************************)
\* the via driver calls PE_Determine_Clock_Speeds(via_addr, num_speeds,
\* speed_list), with interrupts enabled or disabled
Call ==
  /\ pc = "idle"
  /\ \E t \in Tables : speed_list' = t
  /\ \E b \in BOOLEAN : intr_enabled' = b
  /\ pc' = "L64"
  /\ nsamples' = 0
  /\ nwrites' = [f \in Fields |-> 0]
  /\ ncallbacks' = 0
  /\ accepted' = {}
  /\ prev_pair' = << >>
  /\ UNCHANGED << statics, testLocals, callerLocals, gPEClockFrequencyInfo >>

\* the variant that saves the level and leaves it as it is
MaskInterruptsKeepLevel ==
  /\ pc = "L64"
  /\ oldLevel' = intr_enabled
  /\ pc' = "L105"
  /\ UNCHANGED << intr_enabled, speed_list, tmp_bus_speed, tmp_cpu_speed,
                  statics, testLocals, gPEClockFrequencyInfo, counters,
                  iterTrace >>

\* oldLevel = ml_set_interrupts_enabled(FALSE);
MaskInterrupts ==
  /\ pc = "L64"
  /\ oldLevel' = intr_enabled
  /\ intr_enabled' = FALSE
  /\ pc' = "L105"
  /\ UNCHANGED << speed_list, tmp_bus_speed, tmp_cpu_speed, statics, testLocals,
                  gPEClockFrequencyInfo, counters, iterTrace >>

(***************************************************************************)
(* pe_do_clock_test                                                        *)
(***************************************************************************)
\* the variant that starts the loop on the numerator left in the static
EnterClockTestKeepNum ==
  /\ pc = "L105"
  /\ tries' = InitialTries
  /\ pc' = "L107"
  /\ UNCHANGED << intr_enabled, speed_list, callerLocals, statics,
                  clock_test_data, raw_bus_freq, last_bus_freq,
                  gPEClockFrequencyInfo, counters, iterTrace >>

\* tries = 10 (declaration); bus_freq_num = 0;
EnterClockTest ==
  /\ pc = "L105"
  /\ tries' = InitialTries
  /\ bus_freq_num' = 0
  /\ pc' = "L107"
  /\ UNCHANGED << intr_enabled, speed_list, callerLocals, bus_freq_den, cpu_pll,
                  clock_test_data, raw_bus_freq, last_bus_freq,
                  gPEClockFrequencyInfo, counters, iterTrace >>

\* do { last_bus_freq = bus_freq_num;
LoopTop ==
  /\ pc = "L107"
  /\ last_bus_freq' = bus_freq_num
  /\ prev_pair' = IF nsamples = 0 THEN << >> ELSE << bus_freq_num, bus_freq_den >>
  /\ accepted' = {}
  /\ pc' = "L110"
  /\ UNCHANGED << intr_enabled, speed_list, callerLocals, statics,
                  clock_test_data, raw_bus_freq, tries,
                  gPEClockFrequencyInfo, counters >>

\* the variant that releases the mask as soon as the sample is back
RunClockTestUnmask ==
  /\ pc = "L110"
  /\ \E s \in Samples : clock_test_data' = s
  /\ nsamples' = nsamples + 1
  /\ intr_enabled' = oldLevel
  /\ pc' = "L113"
  /\ UNCHANGED << speed_list, callerLocals, statics, raw_bus_freq,
                  last_bus_freq, tries, gPEClockFrequencyInfo, nwrites,
                  ncallbacks, iterTrace >>

\* pe_run_clock_test((void *)&clock_test_data);
RunClockTest ==
  /\ pc = "L110"
  /\ \E s \in Samples : clock_test_data' = s
  /\ nsamples' = nsamples + 1
  /\ pc' = "L113"
  /\ UNCHANGED << intr_enabled, speed_list, callerLocals, statics, raw_bus_freq,
                  last_bus_freq, tries, gPEClockFrequencyInfo, nwrites,
                  ncallbacks, iterTrace >>

\* the value lines 118-119 compute from each sample pe_run_clock_test may
\* have stored (RawBusFreq, evaluated once per sample)
RawBusFreqOf ==
  [ s \in Samples |-> RawBusFreq(s.dec_ticks, s.via_ticks) ]

\* cpu_pll = ...; raw_bus_freq = ...;  (raw_cpu_freq is computed and never read)
ComputeRaw ==
  /\ pc = "L113"
  /\ cpu_pll' = CpuPll(clock_test_data.dec_ticks)
  /\ raw_bus_freq' = RawBusFreqOf[clock_test_data]
  /\ pc' = "L126"
  /\ UNCHANGED << intr_enabled, speed_list, callerLocals, bus_freq_num,
                  bus_freq_den, clock_test_data, last_bus_freq, tries,
                  gPEClockFrequencyInfo, counters, iterTrace >>

\* the variant that ends the iteration at once when num_speeds is 0
MatchTableEmptyContinues ==
  /\ pc = "L126"
  /\ LET r == TableScan(speed_list, raw_bus_freq, 0, bus_freq_num, bus_freq_den)
     IN  /\ bus_freq_num' = r.num
         /\ bus_freq_den' = r.den
         /\ IF Len(speed_list) = 0
            THEN pc' = "L163" /\ accepted' = accepted
            ELSE IF r.cnt # Len(speed_list)
                 THEN pc' = "L163" /\ accepted' = accepted \cup {"table"}
                 ELSE pc' = "L137" /\ accepted' = accepted
  /\ UNCHANGED << intr_enabled, speed_list, callerLocals, cpu_pll, testLocals,
                  gPEClockFrequencyInfo, counters, prev_pair >>

\* the variant that continues after the scan whether or not an entry matched
MatchTableAlwaysContinue ==
  /\ pc = "L126"
  /\ LET r == TableScan(speed_list, raw_bus_freq, 0, bus_freq_num, bus_freq_den)
     IN  /\ bus_freq_num' = r.num
         /\ bus_freq_den' = r.den
         /\ IF Len(speed_list) # 0
            THEN pc' = "L163" /\ accepted' = accepted \cup {"table"}
            ELSE pc' = "L137" /\ accepted' = accepted
  /\ UNCHANGED << intr_enabled, speed_list, callerLocals, cpu_pll, testLocals,
                  gPEClockFrequencyInfo, counters, prev_pair >>

\* for (cnt = 0; cnt < num_speeds; cnt++) {...}  if (cnt != num_speeds) continue;
MatchTable ==
  /\ pc = "L126"
  /\ LET r == TableScan(speed_list, raw_bus_freq, 0, bus_freq_num, bus_freq_den)
     IN  /\ bus_freq_num' = r.num
         /\ bus_freq_den' = r.den
         /\ IF r.cnt # Len(speed_list)
            THEN pc' = "L163" /\ accepted' = accepted \cup {"table"}
            ELSE pc' = "L137" /\ accepted' = accepted
  /\ UNCHANGED << intr_enabled, speed_list, callerLocals, cpu_pll, testLocals,
                  gPEClockFrequencyInfo, counters, prev_pair >>
\* tmp_bus_freq = ((raw_bus_freq + 250000) / 500000) * 500000;
HalfMHzSnap(raw) == CDiv(raw + 250000, 500000) * 500000

\* tmp_bus_freq = ((raw_bus_freq * 3 + 25000000) / 50000000) * 50000000;
ThirdsSnap(raw) == CDiv(raw * 3 + 25000000, 50000000) * 50000000

\* the variant of the first fallback that also accepts a difference equal to
\* the threshold
Tier1Inclusive ==
  /\ pc = "L137"
  /\ LET tmp_bus_freq == HalfMHzSnap(raw_bus_freq)
         diff         == Abs(tmp_bus_freq - raw_bus_freq)
     IN  IF diff <= kMaxFreqDiff
         THEN /\ bus_freq_num' = tmp_bus_freq
              /\ bus_freq_den' = 1
              /\ accepted' = accepted \cup {"tier1"}
              /\ pc' = "L163"
         ELSE /\ UNCHANGED << bus_freq_num, bus_freq_den, accepted >>
              /\ pc' = "L149"
  /\ UNCHANGED << intr_enabled, speed_list, callerLocals, cpu_pll, testLocals,
                  gPEClockFrequencyInfo, counters, prev_pair >>

\* the variant of the first fallback without its continue
Tier1FallThrough ==
  /\ pc = "L137"
  /\ LET tmp_bus_freq == HalfMHzSnap(raw_bus_freq)
         diff         == Abs(tmp_bus_freq - raw_bus_freq)
     IN  IF diff < kMaxFreqDiff
         THEN /\ bus_freq_num' = tmp_bus_freq
              /\ bus_freq_den' = 1
              /\ accepted' = accepted \cup {"tier1"}
              /\ pc' = "L149"
         ELSE /\ UNCHANGED << bus_freq_num, bus_freq_den, accepted >>
              /\ pc' = "L149"
  /\ UNCHANGED << intr_enabled, speed_list, callerLocals, cpu_pll, testLocals,
                  gPEClockFrequencyInfo, counters, prev_pair >>

\* Look to see if the bus speed is close to n * 0.5 MHz
Tier1 ==
  /\ pc = "L137"
  /\ LET tmp_bus_freq == HalfMHzSnap(raw_bus_freq)
         diff         == Abs(tmp_bus_freq - raw_bus_freq)
     IN  IF diff < kMaxFreqDiff
         THEN /\ bus_freq_num' = tmp_bus_freq
              /\ bus_freq_den' = 1
              /\ accepted' = accepted \cup {"tier1"}
              /\ pc' = "L163"
         ELSE /\ UNCHANGED << bus_freq_num, bus_freq_den, accepted >>
              /\ pc' = "L149"
  /\ UNCHANGED << intr_enabled, speed_list, callerLocals, cpu_pll, testLocals,
                  gPEClockFrequencyInfo, counters, prev_pair >>

\* the variant of the second fallback that stores denominator 1
Tier2DenOne ==
  /\ pc = "L149"
  /\ LET tmp_bus_freq == ThirdsSnap(raw_bus_freq)
         diff         == Abs(tmp_bus_freq - raw_bus_freq * 3)
     IN  IF diff < kMaxFreqDiff * 3
         THEN /\ bus_freq_num' = tmp_bus_freq
              /\ bus_freq_den' = 1
              /\ accepted' = accepted \cup {"tier2"}
              /\ pc' = "L163"
         ELSE /\ UNCHANGED << bus_freq_num, bus_freq_den, accepted >>
              /\ pc' = "L161"
  /\ UNCHANGED << intr_enabled, speed_list, callerLocals, cpu_pll, testLocals,
                  gPEClockFrequencyInfo, counters, prev_pair >>

\* Look to see if the bus speed is close to n * 50/3 MHz
Tier2 ==
  /\ pc = "L149"
  /\ LET tmp_bus_freq == ThirdsSnap(raw_bus_freq)
         diff         == Abs(tmp_bus_freq - raw_bus_freq * 3)
     IN  IF diff < kMaxFreqDiff * 3
         THEN /\ bus_freq_num' = tmp_bus_freq
              /\ bus_freq_den' = 3
              /\ accepted' = accepted \cup {"tier2"}
              /\ pc' = "L163"
         ELSE /\ UNCHANGED << bus_freq_num, bus_freq_den, accepted >>
              /\ pc' = "L161"
  /\ UNCHANGED << intr_enabled, speed_list, callerLocals, cpu_pll, testLocals,
                  gPEClockFrequencyInfo, counters, prev_pair >>

\* the variant of the last fallback that forgets the denominator
Tier3KeepDen ==
  /\ pc = "L161"
  /\ bus_freq_num' = raw_bus_freq
  /\ accepted' = accepted \cup {"tier3"}
  /\ pc' = "L163"
  /\ UNCHANGED << intr_enabled, speed_list, callerLocals, bus_freq_den, cpu_pll,
                  testLocals, gPEClockFrequencyInfo, counters, prev_pair >>

\* Since all else failed return the raw bus speed
Tier3 ==
  /\ pc = "L161"
  /\ bus_freq_num' = raw_bus_freq
  /\ bus_freq_den' = 1
  /\ accepted' = accepted \cup {"tier3"}
  /\ pc' = "L163"
  /\ UNCHANGED << intr_enabled, speed_list, callerLocals, cpu_pll, testLocals,
                  gPEClockFrequencyInfo, counters, prev_pair >>

\* the variant that also leaves the loop as soon as a table entry is accepted
LoopCondStopOnTable ==
  /\ pc = "L163"
  /\ IF bus_freq_num # last_bus_freq /\ tries # 0 /\ accepted # {"table"}
     THEN /\ tries' = tries - 1
          /\ pc' = "L107"
          /\ UNCHANGED << clock_test_data, raw_bus_freq, last_bus_freq >>
     ELSE /\ pc' = "L66"
          /\ tries' = 0
          /\ clock_test_data' = NoSample
          /\ raw_bus_freq' = 0
          /\ last_bus_freq' = 0
  /\ UNCHANGED << intr_enabled, speed_list, callerLocals, statics,
                  gPEClockFrequencyInfo, counters, iterTrace >>

\* } while ((bus_freq_num != last_bus_freq) && tries--);
\* tries-- is evaluated only when the numerators differ; it yields the value
\* before the decrement.  When the loop ends the function returns and its
\* locals are gone.
LoopCond ==
  /\ pc = "L163"
  /\ IF bus_freq_num # last_bus_freq /\ tries # 0
     THEN /\ tries' = tries - 1
          /\ pc' = "L107"
          /\ UNCHANGED << clock_test_data, raw_bus_freq, last_bus_freq >>
     ELSE /\ pc' = "L66"
          /\ tries' = 0
          /\ clock_test_data' = NoSample
          /\ raw_bus_freq' = 0
          /\ last_bus_freq' = 0
  /\ UNCHANGED << intr_enabled, speed_list, callerLocals, statics,
                  gPEClockFrequencyInfo, counters, iterTrace >>

(***************************************************************************)
(* PE_Determine_Clock_Speeds, after pe_do_clock_test has returned          *)
(***************************************************************************)
\* the variant that enables interrupts whatever the saved level was
RestoreInterruptsEnable ==
  /\ pc = "L66"
  /\ intr_enabled' = TRUE
  /\ pc' = "L68"
  /\ UNCHANGED << speed_list, callerLocals, statics, testLocals,
                  gPEClockFrequencyInfo, counters, iterTrace >>

\* ml_set_interrupts_enabled(oldLevel);
RestoreInterrupts ==
  /\ pc = "L66"
  /\ intr_enabled' = oldLevel
  /\ pc' = "L68"
  /\ UNCHANGED << speed_list, callerLocals, statics, testLocals,
                  gPEClockFrequencyInfo, counters, iterTrace >>

\* tmp_bus_speed = bus_freq_num / bus_freq_den;
\* tmp = ((unsigned long long)bus_freq_num * cpu_pll) / (bus_freq_den * 2);
\* tmp_cpu_speed = (unsigned long)tmp;
ComputeSpeeds ==
  /\ pc = "L68"
  /\ tmp_bus_speed' = CDiv(bus_freq_num, bus_freq_den)
  /\ tmp_cpu_speed' = CpuSpeed(bus_freq_num, bus_freq_den, cpu_pll)
  /\ pc' = "L73"
  /\ UNCHANGED << intr_enabled, speed_list, oldLevel, statics, testLocals,
                  gPEClockFrequencyInfo, counters, iterTrace >>

\* gPEClockFrequencyInfo.<field> = <value>; at line <line>, then on to <next>
Publish(line, field, value, next) ==
  /\ pc = line
  /\ gPEClockFrequencyInfo' = [gPEClockFrequencyInfo EXCEPT ![field] = value]
  /\ nwrites' = [nwrites EXCEPT ![field] = @ + 1]
  /\ pc' = next
  /\ UNCHANGED << intr_enabled, speed_list, callerLocals, statics, testLocals,
                  nsamples, ncallbacks, iterTrace >>

\* the variant that reports the numerator of the iteration before the last
PublishBusNumPrevious ==
  Publish("L73", "bus_clock_rate_num",
          IF prev_pair = << >> THEN bus_freq_num ELSE prev_pair[1], "L74")

PublishBusNum   == Publish("L73", "bus_clock_rate_num", bus_freq_num, "L74")
PublishBusDen   == Publish("L74", "bus_clock_rate_den", bus_freq_den, "L77")
PublishCpuNum   == Publish("L77", "bus_to_cpu_rate_num", cpu_pll, "L78")
PublishCpuDen   == Publish("L78", "bus_to_cpu_rate_den", 2, "L81")
PublishDecNum   == Publish("L81", "bus_to_dec_rate_num", 1, "L82")
PublishDecDen   == Publish("L82", "bus_to_dec_rate_den", 4, "L85")
PublishBusHz    == Publish("L85", "bus_clock_rate_hz", tmp_bus_speed, "L86")
PublishCpuHz    == Publish("L86", "cpu_clock_rate_hz", tmp_cpu_speed, "L87")

\* the variant that divides the numerator instead of the bus speed
PublishDecHzFromNum ==
  Publish("L87", "dec_clock_rate_hz", bus_freq_num \div 4, "L89")

PublishDecHz    == Publish("L87", "dec_clock_rate_hz", tmp_bus_speed \div 4, "L89")

\* the variant that notifies as soon as the rates in Hz start to be written
CallTimebaseCallbackEarly ==
  /\ pc \in {"L86", "L89"}
  /\ ncallbacks' = ncallbacks + 1
  /\ pc' = IF pc = "L86" THEN "L87" ELSE "done"
  /\ UNCHANGED << intr_enabled, speed_list, callerLocals, statics, testLocals,
                  gPEClockFrequencyInfo, nsamples, nwrites, iterTrace >>

\* PE_call_timebase_callback();
CallTimebaseCallback ==
  /\ pc = "L89"
  /\ ncallbacks' = ncallbacks + 1
  /\ pc' = "done"
  /\ UNCHANGED << intr_enabled, speed_list, callerLocals, statics, testLocals,
                  gPEClockFrequencyInfo, nsamples, nwrites, iterTrace >>

\* PE_Determine_Clock_Speeds returns: its locals are gone, the statics and
\* the published record stay
Return ==
  /\ pc = "done"
  /\ pc' = "idle"
  /\ oldLevel' = FALSE
  /\ tmp_bus_speed' = 0
  /\ tmp_cpu_speed' = 0
  /\ UNCHANGED << intr_enabled, speed_list, statics, testLocals,
                  gPEClockFrequencyInfo, counters, iterTrace >>

Next ==
  \/ Call
  \/ MaskInterrupts
  \/ EnterClockTest
  \/ LoopTop
  \/ RunClockTest
  \/ ComputeRaw
  \/ MatchTable
  \/ Tier1
  \/ Tier2
  \/ Tier3
  \/ LoopCond
  \/ RestoreInterrupts
  \/ ComputeSpeeds
  \/ PublishBusNum
  \/ PublishBusDen
  \/ PublishCpuNum
  \/ PublishCpuDen
  \/ PublishDecNum
  \/ PublishDecDen
  \/ PublishBusHz
  \/ PublishCpuHz
  \/ PublishDecHz
  \/ CallTimebaseCallback
  \/ Return

Spec == Init /\ [][Next]_vars

(***************************************************************************)
(* Properties                                                              *)
(***************************************************************************)
\* the tolerance tests as the specification states them, on the state at the
\* end of an iteration (pc = "L163": the loop condition is next)
EntryWithinTolerance(i) ==
  LET num == speed_list[i][1]
      den == speed_list[i][2]
  IN  Abs(num - raw_bus_freq * den) < 30000 * den
SomeEntryWithinTolerance == \E i \in 1..Len(speed_list) : EntryWithinTolerance(i)
FirstEntryWithinTolerance ==
  CHOOSE i \in 1..Len(speed_list) :
    /\ EntryWithinTolerance(i)
    /\ \A j \in 1..(i - 1) : ~EntryWithinTolerance(j)
NearestHalfMHz == ((raw_bus_freq + 250000) \div 500000) * 500000
HalfMHzWithinTolerance == Abs(NearestHalfMHz - raw_bus_freq) < 30000
NearestThirds == ((3 * raw_bus_freq + 25000000) \div 50000000) * 50000000
ThirdsWithinTolerance == Abs(NearestThirds - 3 * raw_bus_freq) < 90000
AcceptedPair == << bus_freq_num, bus_freq_den >>
NothingPublishedYet == (\A f \in Fields : nwrites[f] = 0) /\ ncallbacks = 0
AllPublishedOnce == \A f \in Fields : nwrites[f] = 1

\* C1: one calibration calls the Sample Provider at most 10 times.
C1_AtMostTenSamples == nsamples <= 10

\* C2: the retry loop stops with budget left only when the pair accepted by
\* the last iteration equals, in numerator and in denominator, the pair
\* accepted by the iteration before it.
C2_StopsOnlyOnEqualPairs ==
  (pc = "L163" /\ tries > 0 /\ bus_freq_num = last_bus_freq)
    => prev_pair = AcceptedPair

\* C3: when some table entry is within tolerance, the iteration accepts the
\* entry of smallest index that is, and no fallback tier touches the pair.
C3_FirstEntryWithinToleranceWins ==
  (pc = "L163" /\ SomeEntryWithinTolerance)
    => /\ AcceptedPair = speed_list[FirstEntryWithinTolerance]
       /\ accepted = {"table"}

\* an iteration took an entry although a later entry was within tolerance too
C3_Witness ==
  /\ pc = "L163"
  /\ accepted = {"table"}
  /\ \E i, j \in 1..Len(speed_list) :
       i < j /\ EntryWithinTolerance(i) /\ EntryWithinTolerance(j)

\* C4: with no table entry within tolerance and the nearest multiple of
\* 500000 within 30000, the iteration accepts exactly (that multiple, 1) and
\* tiers 2 and 3 are not applied.
C4_HalfMHzSnapAccepted ==
  (pc = "L163" /\ ~SomeEntryWithinTolerance /\ HalfMHzWithinTolerance)
    => /\ AcceptedPair = << NearestHalfMHz, 1 >>
       /\ accepted = {"tier1"}

\* tier 1 accepted after a non-empty table was scanned without a match
C4_Witness ==
  /\ pc = "L163"
  /\ Len(speed_list) > 0
  /\ accepted = {"tier1"}
  /\ bus_freq_num # raw_bus_freq

\* C5: with neither a table entry nor tier 1 accepting, and the nearest
\* multiple of 50000000 to 3*raw within 90000, the iteration accepts exactly
\* (that multiple, 3).
C5_ThirdsSnapAccepted ==
  (pc = "L163" /\ ~SomeEntryWithinTolerance /\ ~HalfMHzWithinTolerance
     /\ ThirdsWithinTolerance)
    => /\ AcceptedPair = << NearestThirds, 3 >>
       /\ accepted = {"tier2"}

\* tier 2 accepted
C5_Witness ==
  /\ pc = "L163"
  /\ accepted = {"tier2"}
  /\ bus_freq_den = 3

\* C6: when neither the table nor tier 1 nor tier 2 accepts, the iteration
\* accepts exactly (raw, 1); every iteration ends with a pair accepted by
\* exactly one of table, tier 1, tier 2, tier 3.
C6_PassthroughAndExactlyOne ==
  (pc = "L163")
    => /\ Cardinality(accepted) = 1
       /\ accepted \subseteq {"table", "tier1", "tier2", "tier3"}
       /\ (~SomeEntryWithinTolerance /\ ~HalfMHzWithinTolerance
             /\ ~ThirdsWithinTolerance)
            => (AcceptedPair = << raw_bus_freq, 1 >> /\ accepted = {"tier3"})

\* tier 3 accepted after the previous iteration had left denominator 3
C6_Witness ==
  /\ pc = "L163"
  /\ accepted = {"tier3"}
  /\ prev_pair # << >>
  /\ prev_pair[2] = 3

\* C7: after every calibration dec_clock_rate_hz = bus_clock_rate_hz div 4
\* and the bus-to-decrementer ratio is (1, 4); no step of the retry loop
\* writes the published record.
C7_DecIsQuarterOfBus ==
  [][ /\ pc' = "done" =>
           /\ gPEClockFrequencyInfo'.dec_clock_rate_hz
                = gPEClockFrequencyInfo'.bus_clock_rate_hz \div 4
           /\ gPEClockFrequencyInfo'.bus_to_dec_rate_num = 1
           /\ gPEClockFrequencyInfo'.bus_to_dec_rate_den = 4
      /\ pc \in LoopPcs => gPEClockFrequencyInfo' = gPEClockFrequencyInfo
    ]_vars

\* a calibration that ended on a tier 2 estimate after a retry
C7_Witness ==
  /\ pc = "done"
  /\ nsamples >= 2
  /\ gPEClockFrequencyInfo.bus_clock_rate_den = 3
  /\ gPEClockFrequencyInfo.bus_clock_rate_hz % 4 # 0

\* C8: within one invocation every Sample Provider call precedes every write
\* of the published record, each field is written exactly once, and the
\* notification is invoked exactly once, after all fields have been written.
C8_PublishOnceThenNotifyOnce ==
  [][ /\ nsamples' > nsamples => NothingPublishedYet
      /\ \A f \in Fields : nwrites'[f] <= 1
      /\ ncallbacks' <= 1
      /\ ncallbacks' > ncallbacks => AllPublishedOnce
      /\ pc' = "done" => (AllPublishedOnce' /\ ncallbacks' = 1)
    ]_vars

\* a calibration that sampled more than once has published and notified
C8_Witness ==
  /\ pc = "done"
  /\ nsamples >= 3
  /\ ncallbacks = 1
  /\ AllPublishedOnce

\* C9: every call of pe_run_clock_test, first or retry, starts and ends with
\* interrupts masked.
C9_SampleOnlyWhileMasked ==
  [][ nsamples' > nsamples => (~intr_enabled /\ ~intr_enabled') ]_vars

\* a retry sample taken in a calibration entered with interrupts enabled
C9_Witness ==
  /\ pc = "L113"
  /\ nsamples >= 2
  /\ oldLevel = TRUE
  /\ ~intr_enabled

\* C10 as stated: the mask is released right after the Sample Provider
\* returns, so the rest of the iteration runs with interrupts unmasked.
C10_RestOfIterationUnmasked ==
  pc \in {"L113", "L126", "L137", "L149", "L161", "L163"} => intr_enabled

\* C10 as amended: the mask is taken once before the first iteration and
\* released once after the loop has ended; every step of every iteration
\* runs with interrupts masked and none of them changes the interrupt state.
C10_MaskedAcrossLoop ==
  [][ /\ pc \in LoopPcs => ~intr_enabled
      /\ intr_enabled' # intr_enabled => pc \in {"idle", "L64", "L66"}
    ]_vars

\* table matching of a retry iteration runs masked in a calibration entered
\* with interrupts enabled
C10_Witness ==
  /\ pc = "L126"
  /\ nsamples >= 2
  /\ oldLevel = TRUE
  /\ ~intr_enabled

AfterLoopPcs == { "L66", "L68", "L73", "L74", "L77", "L78", "L81", "L82",
                  "L85", "L86", "L87", "L89", "done" }

\* the retry budget ran out: the last permitted iteration was run and its
\* numerator still differs from the one of the iteration before
BudgetExhausted ==
  /\ nsamples = InitialTries + 1
  /\ prev_pair # << >>
  /\ prev_pair[1] # bus_freq_num

\* C12: when the retry budget runs out without agreement the calibration
\* still publishes the pair accepted by the final iteration, their integer
\* quotient as bus_clock_rate_hz, and invokes the notification.
C12_ExhaustedStillPublishes ==
  [][ /\ (pc \in AfterLoopPcs /\ pc' # "idle")
           => (bus_freq_num' = bus_freq_num /\ bus_freq_den' = bus_freq_den)
      /\ (pc' = "done" /\ BudgetExhausted')
           => /\ gPEClockFrequencyInfo'.bus_clock_rate_num = bus_freq_num'
              /\ gPEClockFrequencyInfo'.bus_clock_rate_den = bus_freq_den'
              /\ gPEClockFrequencyInfo'.bus_clock_rate_hz
                   = bus_freq_num' \div bus_freq_den'
              /\ AllPublishedOnce'
              /\ ncallbacks' = 1
    ]_vars

\* a calibration that used up its budget has published a tier 2 estimate
C12_Witness ==
  /\ pc = "done"
  /\ BudgetExhausted
  /\ bus_freq_den = 3
  /\ gPEClockFrequencyInfo.bus_clock_rate_hz = bus_freq_num \div 3
  /\ ncallbacks = 1

\* C13 as stated: a calibration called with num_speeds = 0 is fatal: it
\* accepts no estimate from the fallback tiers, writes no published field
\* and does not invoke the notification.
C13_EmptyTableIsFatal ==
  (pc # "idle" /\ Len(speed_list) = 0)
    => (accepted = {} /\ NothingPublishedYet)

\* C13 as amended: with num_speeds = 0 the table scan is skipped, every
\* iteration accepts its pair from exactly one fallback tier, and the
\* calibration publishes every field once and invokes the notification once.
C13_EmptyTableFallsBack ==
  /\ (pc = "L163" /\ Len(speed_list) = 0)
       => accepted \in { {"tier1"}, {"tier2"}, {"tier3"} }
  /\ (pc = "done" /\ Len(speed_list) = 0)
       => (AllPublishedOnce /\ ncallbacks = 1)

\* a calibration with an empty table has retried, published and notified
C13_Witness ==
  /\ pc = "done"
  /\ Len(speed_list) = 0
  /\ nsamples >= 2
  /\ AllPublishedOnce
  /\ ncallbacks = 1
  /\ gPEClockFrequencyInfo.bus_clock_rate_hz > 0

\* the candidate table of the example: [(100000000, 1)]
ExampleTable == << << 100000000, 1 >> >>

\* C14 as stated: with the example table and every sample within tolerance
\* of 100000000 the loop stops after a single Sample Provider call.
\* (Of a finished calibration with at most two samples, prev_pair and
\* accepted tell that every sample was within tolerance.)
C14_ConvergesInOneIteration ==
  ( /\ pc = "done"
    /\ speed_list = ExampleTable
    /\ nsamples <= 2
    /\ prev_pair \in { << >>, << 100000000, 1 >> }
    /\ accepted = {"table"} )
    => nsamples = 1

\* C14 as amended: a first iteration that accepts a non-zero numerator never
\* ends the loop (it is compared with the initial 0); with the example table
\* and two samples within tolerance the loop stops after the second call and
\* the calibration publishes 100000000 and 25000000.
C14_ConvergesInTwoIterations ==
  [][ /\ (pc = "L163" /\ nsamples = 1 /\ bus_freq_num # 0) => pc' = "L107"
      /\ ( /\ pc = "L163"
           /\ nsamples = 2
           /\ speed_list = ExampleTable
           /\ prev_pair = << 100000000, 1 >>
           /\ accepted = {"table"} ) => pc' = "L66"
      /\ ( /\ pc' = "done"
           /\ speed_list' = ExampleTable
           /\ nsamples' = 2
           /\ prev_pair' = << 100000000, 1 >>
           /\ accepted' = {"table"} )
           => /\ gPEClockFrequencyInfo'.bus_clock_rate_hz = 100000000
              /\ gPEClockFrequencyInfo'.dec_clock_rate_hz = 25000000
    ]_vars

\* the example calibration has finished after exactly two calls
C14_Witness ==
  /\ pc = "done"
  /\ speed_list = ExampleTable
  /\ nsamples = 2
  /\ prev_pair = << 100000000, 1 >>
  /\ accepted = {"table"}
  /\ gPEClockFrequencyInfo.bus_clock_rate_hz = 100000000

\* differences exactly equal to the threshold
EntryAtBoundary(i) ==
  LET num == speed_list[i][1]
      den == speed_list[i][2]
  IN  den > 0 /\ Abs(num - raw_bus_freq * den) = 30000 * den
HalfMHzAtBoundary == Abs(NearestHalfMHz - raw_bus_freq) = 30000
ThirdsAtBoundary == Abs(NearestThirds - 3 * raw_bus_freq) = 90000

\* C15: the three tolerance tests are strict: a table entry whose difference
\* equals 30000*den, a tier 1 candidate at exactly 30000 and a tier 2
\* candidate at exactly 90000 are not accepted, and matching goes on to the
\* next entry or tier.
C15_ToleranceIsStrict ==
  pc = "L163" =>
    /\ \A i \in 1..Len(speed_list) :
         EntryAtBoundary(i)
           => /\ ~(accepted = {"table"} /\ FirstEntryWithinTolerance = i)
              /\ (\A j \in 1..Len(speed_list) : ~EntryWithinTolerance(j))
                   => "table" \notin accepted
    /\ HalfMHzAtBoundary => "tier1" \notin accepted
    /\ ThirdsAtBoundary => "tier2" \notin accepted
    /\ ( /\ ~SomeEntryWithinTolerance
         /\ HalfMHzAtBoundary
         /\ ThirdsAtBoundary ) => AcceptedPair = << raw_bus_freq, 1 >>

\* a sample on all three boundaries at once went through to tier 3
C15_Witness ==
  /\ pc = "L163"
  /\ \E i \in 1..Len(speed_list) : EntryAtBoundary(i)
  /\ HalfMHzAtBoundary
  /\ ThirdsAtBoundary
  /\ accepted = {"tier3"}

(***************************************************************************)
(* Two invocations of PE_Determine_Clock_Speeds                            *)
(***************************************************************************)
\* the pair one iteration of the loop leaves in bus_freq_num / bus_freq_den
\* for a speed list and a raw bus frequency (table scan, then the tiers)
IterationPair(list, raw) ==
  LET r == TableScan(list, raw, 0, 0, 0)
  IN  IF r.cnt # Len(list) THEN << r.num, r.den >>
      ELSE IF Abs(HalfMHzSnap(raw) - raw) < kMaxFreqDiff
           THEN << HalfMHzSnap(raw), 1 >>
      ELSE IF Abs(ThirdsSnap(raw) - raw * 3) < kMaxFreqDiff * 3
           THEN << ThirdsSnap(raw), 3 >>
      ELSE << raw, 1 >>

\* the record lines 68-87 write for given values of the three statics
PublishedRecord(num, den, pll) ==
  [ bus_clock_rate_num  |-> num,
    bus_clock_rate_den  |-> den,
    bus_to_cpu_rate_num |-> pll,
    bus_to_cpu_rate_den |-> 2,
    bus_to_dec_rate_num |-> 1,
    bus_to_dec_rate_den |-> 4,
    bus_clock_rate_hz   |-> CDiv(num, den),
    cpu_clock_rate_hz   |-> CpuSpeed(num, den, pll),
    dec_clock_rate_hz   |-> CDiv(num, den) \div 4 ]

\* what a complete second invocation called with the list t can leave in the
\* statics: it is given the sample s on every call of pe_run_clock_test, so
\* its loop ends on IterationPair(t, raw of s) with the multiplier of s
OtherResults ==
  [ t \in Tables |->
      { LET pair == IterationPair(t, RawBusFreq(s.dec_ticks, s.via_ticks))
            pll  == CpuPll(s.dec_ticks)
        IN  [ pair |-> pair, pll |-> pll,
              info |-> PublishedRecord(pair[1], pair[2], pll) ] : s \in Samples } ]

\* After line 66 has restored enabled interrupts, just before or just after
\* this invocation computes its speeds from the statics (lines 68-70) and
\* before it reads them again (lines 73-77), it is preempted and a second
\* invocation, called with the same speed list, runs from entry to return:
\* it leaves its pair and multiplier in the statics, publishes its record
\* and gives the processor back with interrupts enabled as before.
OtherInvocation ==
  /\ pc \in {"L68", "L73"}
  /\ intr_enabled
  /\ \E r \in OtherResults[speed_list] :
       /\ bus_freq_num' = r.pair[1]
       /\ bus_freq_den' = r.pair[2]
       /\ cpu_pll' = r.pll
       /\ gPEClockFrequencyInfo' = r.info
  /\ UNCHANGED << pc, intr_enabled, speed_list, callerLocals, testLocals,
                  counters, iterTrace >>

NextInterleaved == Next \/ OtherInvocation

SpecInterleaved == Init /\ [][NextInterleaved]_vars

\* C16: the working estimate is private to an invocation: when two
\* invocations interleave, each publishes the values of its own run.  Of a
\* finished invocation: the published numerator is the one its own last two
\* iterations agreed on, the published denominator is the one of the branch
\* that accepted in its own last iteration, and the rates in Hz are derived
\* from the published pair and multiplier.
C16_PublishesOwnEstimate ==
  pc = "done" =>
    /\ nsamples \in 2..InitialTries
         => gPEClockFrequencyInfo.bus_clock_rate_num = prev_pair[1]
    /\ accepted \in { {"tier1"}, {"tier3"} }
         => gPEClockFrequencyInfo.bus_clock_rate_den = 1
    /\ accepted = {"tier2"}
         => gPEClockFrequencyInfo.bus_clock_rate_den = 3
    /\ gPEClockFrequencyInfo
         = PublishedRecord(gPEClockFrequencyInfo.bus_clock_rate_num,
                           gPEClockFrequencyInfo.bus_clock_rate_den,
                           gPEClockFrequencyInfo.bus_to_cpu_rate_num)

(***************************************************************************)
(* C17                                                                     *)
(***************************************************************************)
\* the quotient ((unsigned long long)num * pll) / (den * 2) is below 2^32
QuotientFitsWord(num, den, pll) ==
  \A i \in 32..63 : CpuSpeedBits(num, den, pll)[64 - i] = 0

\* C17: after every calibration the published bus-to-CPU ratio is
\* (multiplier, 2) and cpu_clock_rate_hz is exactly
\* floor((numerator * multiplier) / (denominator * 2)), where the pair is
\* the one accepted by the final iteration and the multiplier is the one
\* computed from the final iteration's sample: each iteration computes the
\* multiplier from its sample, nothing changes the pair or the multiplier
\* between the end of the final iteration and the return, and the record
\* written holds that multiplier, 2 and the exact quotient.
C17_CpuRateIsExactQuotient ==
  [][ /\ pc = "L113" => cpu_pll' = CpuPll(clock_test_data.dec_ticks)
      /\ pc \in { "L126", "L137", "L149", "L161" } => cpu_pll' = cpu_pll
      /\ pc \in { "L163" } \cup AfterLoopPcs => statics' = statics
      /\ (pc = "L89" /\ pc' = "done") =>
           /\ gPEClockFrequencyInfo'.bus_to_cpu_rate_num = cpu_pll
           /\ gPEClockFrequencyInfo'.bus_to_cpu_rate_den = 2
           /\ QuotientFitsWord(bus_freq_num, bus_freq_den, cpu_pll)
           /\ gPEClockFrequencyInfo'.cpu_clock_rate_hz
                = CpuSpeed(bus_freq_num, bus_freq_den, cpu_pll) ]_vars

(***************************************************************************)
(* C18                                                                     *)
(***************************************************************************)
\* all six base-2^14 digits of 0xBF401675E5D * dec_ticks: the product as an
\* integer, nothing lost (44 + 31 bits fit in 84)
RECURSIVE ExactMulLimbs(_, _, _, _)
ExactMulLimbs(a, b, k, carry) ==
  IF k > 5 THEN << >>
  ELSE LET t == Column(a, b, k) + carry
       IN  << t % LimbBase >> \o ExactMulLimbs(a, b, k + 1, t \div LimbBase)

ExactProduct(dec_ticks) ==
  ExactMulLimbs(kClockConstLimbs, Limbs(dec_ticks), 0, 0)

\* the product is below 2^64: the unsigned long long holds it whole
ProductFitsLongLong(dec_ticks) ==
  \A i \in 64..83 : ProductBit(ExactProduct(dec_ticks), i) = 0

\* bits (bit 83 first) of floor(0xBF401675E5D * dec_ticks / via_ticks)
ExactQuotBits(dec_ticks, via_ticks) ==
  QuotBits(ExactProduct(dec_ticks), via_ticks, 83, 0)

\* value of bits lo..hi of an 84-bit quotient given bit 83 first
RECURSIVE ExactBitsValue(_, _, _)
ExactBitsValue(q, lo, hi) ==
  IF hi < lo THEN 0
  ELSE q[84 - lo] + 2 * ExactBitsValue(q, lo + 1, hi)

\* raw is floor(floor(0xBF401675E5D * dec_ticks / via_ticks) / 2^22): the
\* exact quotient shifted right by 22 is below 2^31 and equals raw
IsExactRawBusFreq(raw, dec_ticks, via_ticks) ==
  LET q == ExactQuotBits(dec_ticks, via_ticks)
  IN  /\ \A i \in 53..83 : q[84 - i] = 0
      /\ raw = ExactBitsValue(q, 22, 52)

\* C18: for every sample the raw bus frequency an iteration has computed is
\* the exact floor(floor(0xBF401675E5D * dec_ticks / via_ticks) / 2^22): the
\* 64-bit product has not wrapped and the stored result is not truncated.
C18_RawBusFreqIsExact ==
  pc = "L126" =>
    /\ ProductFitsLongLong(clock_test_data.dec_ticks)
    /\ IsExactRawBusFreq(raw_bus_freq, clock_test_data.dec_ticks,
                         clock_test_data.via_ticks)

(***************************************************************************)
(* C19                                                                     *)
(***************************************************************************)
\* C19: PE_Determine_Clock_Speeds leaves the interrupt-enable state as it
\* found it.  Line 64 saves the state found at entry; when the loop has ended,
\* by convergence or by exhaustion, line 66 sets the state to the saved one
\* while no field of the record has been written; from then on to the return
\* the state stays the saved one.
C19_InterruptStatePreserved ==
  [][ /\ pc = "L64" => oldLevel' = intr_enabled
      /\ pc \in { "L105" } \cup LoopPcs => oldLevel' = oldLevel
      /\ pc = "L66" => /\ intr_enabled' = oldLevel
                       /\ oldLevel' = oldLevel
                       /\ NothingPublishedYet
      /\ pc \in AfterLoopPcs \ { "L66" } =>
           /\ intr_enabled = oldLevel
           /\ intr_enabled' = intr_enabled ]_vars

\* a calibration entered with interrupts disabled has used up its budget and
\* has published, and interrupts are still disabled
C19_Witness ==
  /\ pc = "done"
  /\ ~oldLevel
  /\ ~intr_enabled
  /\ BudgetExhausted
  /\ AllPublishedOnce

(***************************************************************************)
(* C20                                                                     *)
(***************************************************************************)
\* the labels of an iteration after its sample has been taken
SampledPcs == { "L113", "L126", "L137", "L149", "L161", "L163" }

\* C20: what a calibration publishes, and how many iterations it takes,
\* depends only on its speed list (num_speeds >= 0) and its samples, not on
\* what an earlier calibration left in bus_freq_num, bus_freq_den and
\* cpu_pll.  Everything the loop decides on is a function of the list and
\* the samples: the first iteration compares with 0 and a later one with the
\* numerator of the iteration before; the remaining budget is fixed by the
\* number of samples taken; the pair and the multiplier at the end of an
\* iteration are those of the list and of that iteration's sample; the
\* statics then stay as they are up to the return, and the record written
\* is the one derived from them.
C20_ResultIndependentOfLeftovers ==
  [][ /\ pc \in { "L110" } \cup SampledPcs =>
           last_bus_freq = IF prev_pair = << >> THEN 0 ELSE prev_pair[1]
      /\ pc \in SampledPcs => tries = (InitialTries + 1) - nsamples
      /\ pc = "L163" =>
           /\ raw_bus_freq = RawBusFreqOf[clock_test_data]
           /\ AcceptedPair = IterationPair(speed_list, raw_bus_freq)
           /\ cpu_pll = CpuPll(clock_test_data.dec_ticks)
      /\ (pc = "L107" /\ nsamples > 0) => prev_pair' = AcceptedPair
      /\ pc \in AfterLoopPcs => statics' = statics
      /\ pc = "done" =>
           gPEClockFrequencyInfo
             = PublishedRecord(bus_freq_num, bus_freq_den, cpu_pll) ]_vars

\* a calibration that found the record and the statics of an earlier one,
\* different from its own result, is about to publish after two or more
\* iterations
C20_Witness ==
  /\ pc = "L73"
  /\ nsamples >= 2
  /\ gPEClockFrequencyInfo.bus_clock_rate_num # 0
  /\ gPEClockFrequencyInfo.bus_clock_rate_num # bus_freq_num
  /\ gPEClockFrequencyInfo.bus_clock_rate_den # bus_freq_den
  /\ gPEClockFrequencyInfo.bus_to_cpu_rate_num # cpu_pll
=============================================================================
